---- MODULE Spec2Model ----
(***************************************************************************)
(* Feature flag service (src/main.go): an in-memory map[string]bool guarded *)
(* by a sync.RWMutex, served over two HTTP routes, /get and /set.  Every    *)
(* request runs on its own goroutine: decode the body, call the endpoint,   *)
(* which calls the service method, encode the response.                     *)
(*                                                                          *)
(* The RWMutex is modelled after Go's sync.RWMutex, which the service      *)
(* methods call: a writer mutex w, the count of readers, the "writer        *)
(* pending" announcement that sends new readers to the slow path, the       *)
(* count of readers the pending writer waits for, and the two semaphores.   *)
(* Each call of a lock method is one step, plus one step for the wake-up    *)
(* of a call that had to sleep.                                             *)
(***************************************************************************)
EXTENDS Integers, FiniteSets, Sequences, TLC

\* Number of request goroutines that may be in flight at once.
NumProcs == 2

\* The same, where what is checked is that every call returns.
NumLiveProcs == 3

\* Flag names requests may carry; "" is the zero value of a Go string.
Keys == {"", "beta"}

----------------------------------------------------------------------------
\* JSON request bodies, by what encoding/json makes of them.

JAbsent == [t |-> "absent", s |-> "", b |-> FALSE]
JNumber == [t |-> "number", s |-> "", b |-> FALSE]
JString(s) == [t |-> "string", s |-> s, b |-> FALSE]
JBool(b) == [t |-> "bool", s |-> "", b |-> b]

\* A body that is no JSON value at all.
Garbage == [valid |-> FALSE, key |-> JAbsent, value |-> JAbsent]

JObject(k, v) == [valid |-> TRUE, key |-> k, value |-> v]

NoBody == Garbage

\* The bodies sent to /get: a key, the empty key, no key field, a key that is
\* no string, and a body that does not parse.
GetBodies ==
    {JObject(JString("beta"), JAbsent),
     JObject(JString(""), JAbsent),
     JObject(JAbsent, JAbsent),
     JObject(JNumber, JAbsent),
     Garbage}

\* The bodies sent to /set: both values for "beta", the empty key, no value
\* field, no key field, a value that is no boolean, and a body that does not
\* parse.
SetBodies ==
    {JObject(JString("beta"), JBool(TRUE)),
     JObject(JString("beta"), JBool(FALSE)),
     JObject(JString(""), JBool(TRUE)),
     JObject(JString("beta"), JAbsent),
     JObject(JAbsent, JBool(TRUE)),
     JObject(JString("beta"), JString("yes")),
     Garbage}

\* json.Decoder.Decode into a string field: an absent field leaves the zero
\* value, a JSON string is stored, any other JSON type is an error.
DecodeStringField(j) ==
    CASE j.t = "absent" -> [err |-> FALSE, v |-> ""]
      [] j.t = "string" -> [err |-> FALSE, v |-> j.s]
      [] OTHER -> [err |-> TRUE, v |-> ""]

\* A decoder that takes an absent bool field for an error.
DecodeBoolRequired(j) ==
    IF j.t = "bool" THEN [err |-> FALSE, v |-> j.b] ELSE [err |-> TRUE, v |-> FALSE]

\* json.Decoder.Decode into a bool field.
DecodeBoolField(j) ==
    CASE j.t = "absent" -> [err |-> FALSE, v |-> FALSE]
      [] j.t = "bool" -> [err |-> FALSE, v |-> j.b]
      [] OTHER -> [err |-> TRUE, v |-> FALSE]

\* decodeGetFeatureFlagRequest: getFeatureFlagRequest{Key} or an error.
\* Fields the struct does not name are ignored.
decodeGetFeatureFlagRequest(body) ==
    IF ~body.valid
    THEN [err |-> TRUE, Key |-> "", Value |-> FALSE]
    ELSE [err |-> DecodeStringField(body.key).err,
          Key |-> DecodeStringField(body.key).v,
          Value |-> FALSE]

\* A decoder that lets a value of the wrong type pass as the zero value.
decodeSetLenient(body) ==
    IF ~body.valid
    THEN [err |-> TRUE, Key |-> "", Value |-> FALSE]
    ELSE [err |-> FALSE,
          Key |-> DecodeStringField(body.key).v,
          Value |-> DecodeBoolField(body.value).v]

\* decodeSetFeatureFlagRequest: setFeatureFlagRequest{Key, Value} or an error.
decodeSetFeatureFlagRequest(body) ==
    IF ~body.valid
    THEN [err |-> TRUE, Key |-> "", Value |-> FALSE]
    ELSE [err |-> DecodeStringField(body.key).err \/ DecodeBoolField(body.value).err,
          Key |-> DecodeStringField(body.key).v,
          Value |-> DecodeBoolField(body.value).v]

----------------------------------------------------------------------------
\* The map and the two statements that touch it.

\* A lookup that returns whether the key exists, and one that reads an absent
\* key as true.
LookupReturnsExists(m, k) == [val |-> k \in DOMAIN m, err |-> "nil"]
LookupDefaultTrue(m, k) ==
    IF k \in DOMAIN m THEN [val |-> m[k], err |-> "nil"]
                      ELSE [val |-> TRUE, err |-> "nil"]

\* val, exists := s.flags[key]; if !exists { return false, nil }; return val, nil
Lookup(m, k) ==
    IF k \in DOMAIN m THEN [val |-> m[k], err |-> "nil"]
                      ELSE [val |-> FALSE, err |-> "nil"]

\* A store that keeps the value of a key already present.
StoreIfAbsent(m, k, v) == [x \in DOMAIN m \cup {k} |-> IF x \in DOMAIN m THEN m[x] ELSE v]

\* A store that replaces the whole map, one that drops the empty key, and one
\* that deletes the entry when the value is false.
StoreReplacesMap(m, k, v) == [x \in {k} |-> v]
StoreSkipsEmptyKey(m, k, v) ==
    IF k = "" THEN m ELSE [x \in DOMAIN m \cup {k} |-> IF x = k THEN v ELSE m[x]]
StoreDeletesFalse(m, k, v) ==
    IF v THEN [x \in DOMAIN m \cup {k} |-> IF x = k THEN v ELSE m[x]]
         ELSE [x \in DOMAIN m \ {k} |-> m[x]]

\* s.flags[key] = value
Store(m, k, v) == [x \in DOMAIN m \cup {k} |-> IF x = k THEN v ELSE m[x]]

\* An index expression that enters the zero value for a key it does not find.
IndexInserts(m, k) == [x \in DOMAIN m \cup {k} |-> IF x \in DOMAIN m THEN m[x] ELSE FALSE]

\* The map after val, exists := s.flags[key]: a Go index expression leaves the
\* map as it is.
MapAfterIndex(m, k) == m

EmptyMap == [x \in {} |-> FALSE]

----------------------------------------------------------------------------
\* Responses written by encodeResponse, and the transport's error reply.

NoResponse == [kind |-> "none", Value |-> FALSE, Success |-> FALSE]

\* A response built without the value read.
getResponseZero(v) == [kind |-> "get", Value |-> FALSE, Success |-> FALSE]

getFeatureFlagResponse(v) == [kind |-> "get", Value |-> v, Success |-> FALSE]
setFeatureFlagResponse(s) == [kind |-> "set", Value |-> FALSE, Success |-> s]
ErrorResponse == [kind |-> "error", Value |-> FALSE, Success |-> FALSE]

----------------------------------------------------------------------------
VARIABLES
    flags,      \* featureFlagService.flags
    mu,         \* featureFlagService.mu
    pc,         \* where each request goroutine stands
    path,       \* the route of the request a goroutine serves
    body,       \* its request body, until it is decoded
    key,        \* the decoded req.Key
    value,      \* the decoded req.Value
    val,        \* GetFeatureFlag's result
    resp,       \* the response written
    \* History variables: they record what happened and decide no step.
    committed,  \* per key, the value of the write whose critical section ended last
    snap,       \* per reader, committed[key] when its critical section began
    everSet,    \* the keys ever passed to SetFeatureFlag
    settled,    \* per key, the value of the last SetFeatureFlag call to return,
                \* unless a call on the key is in progress or the last ones overlapped
    racing,     \* per key, whether the SetFeatureFlag calls in progress overlapped
                \* one another or calls that returned since they began
    owner       \* per key, the goroutine whose call, not yet returned, wrote the
                \* value now readable; 0 when that call has returned

prog == <<flags, mu, pc, path, body, key, value, val, resp>>
hist == <<committed, snap, everSet, settled, racing, owner>>
vars == <<flags, mu, pc, path, body, key, value, val, resp,
          committed, snap, everSet, settled, racing, owner>>

Procs == DOMAIN pc

NoResult == [val |-> FALSE, err |-> "nil"]

\* sync.RWMutex: readerCount is the number of readers holding or requesting
\* the lock; pending says a writer has announced itself (Go keeps this as the
\* sign of readerCount); readerWait is the number of readers the announced
\* writer still waits for; w is the goroutine holding the writer mutex, 0
\* when free; writerSem and readerSem count the wake-ups not yet consumed.
FreeRWMutex ==
    [readerCount |-> 0, pending |-> FALSE, readerWait |-> 0,
     w |-> 0, writerSem |-> 0, readerSem |-> 0]

\* A lock whose readers exclude one another, and one whose readers ignore
\* writers.
ReaderMustWaitExclusive(m) == m.pending \/ m.readerCount > 0
ReaderNeverWaits(m) == FALSE

\* RLock sleeps when a writer is pending.
ReaderMustWait(m) == m.pending

\* Lock can take the writer mutex when no goroutine holds it.
WriterMutexFree(m) == m.w = 0

\* A lock whose writers ignore readers.
WriterNeverWaits(m) == FALSE

\* After announcing itself, Lock sleeps when readers are still active.
WriterMustWait(m) == m.readerCount # 0

\* RLock: the reader is counted in.
RLockOp(m) == [m EXCEPT !.readerCount = @ + 1]

\* A return path that leaves the read lock held.
RUnlockSkipped(m) == m

\* A return path that leaves the write lock held.
UnlockSkipped(m) == m

\* RUnlock: the reader is counted out; with a writer pending there is one
\* reader fewer to wait for, and the last of them wakes the writer.
RUnlockOp(m) ==
    IF m.pending
    THEN [m EXCEPT !.readerCount = @ - 1,
                   !.readerWait = @ - 1,
                   !.writerSem = IF m.readerWait - 1 = 0 THEN @ + 1 ELSE @]
    ELSE [m EXCEPT !.readerCount = @ - 1]

\* Lock: the writer mutex is taken, the writer announced, the active readers
\* are the ones to wait for.
LockOp(m, p) == [m EXCEPT !.w = p, !.pending = TRUE, !.readerWait = @ + m.readerCount]

\* Unlock: the announcement is withdrawn, every reader that went to sleep
\* meanwhile is woken, the writer mutex is released.
UnlockOp(m) == [m EXCEPT !.pending = FALSE, !.readerSem = @ + m.readerCount, !.w = 0]

\* The goroutines inside a SetFeatureFlag call, and inside a GetFeatureFlag call.
InSet(p) == pc[p] \in {"lock", "wsleep", "write", "unlock", "setret"}
InGet(p) == pc[p] \in {"rlock", "rwait", "read", "runlock", "getret"}

\* Holding the write lock, and holding a read lock.
InWriteCS(p) == pc[p] \in {"write", "unlock"}
InReadCS(p) == pc[p] \in {"read", "runlock"}

InitFor(P) ==
    /\ flags = EmptyMap
    /\ mu = FreeRWMutex
    /\ pc = [p \in P |-> "idle"]
    /\ path = [p \in P |-> "none"]
    /\ body = [p \in P |-> NoBody]
    /\ key = [p \in P |-> ""]
    /\ value = [p \in P |-> FALSE]
    /\ val = [p \in P |-> NoResult]
    /\ resp = [p \in P |-> NoResponse]
    /\ committed = [k \in Keys |-> {}]
    /\ snap = [p \in P |-> {}]
    /\ everSet = {}
    /\ settled = [k \in Keys |-> {}]
    /\ racing = [k \in Keys |-> FALSE]
    /\ owner = [k \in Keys |-> 0]

Init == InitFor(1..NumProcs)

----------------------------------------------------------------------------
\* The /get route.

\* A request arrives on /get and its handler starts.
ReceiveGet(p, bodies) ==
    /\ pc[p] = "idle"
    /\ \E b \in bodies : body' = [body EXCEPT ![p] = b]
    /\ path' = [path EXCEPT ![p] = "/get"]
    /\ pc' = [pc EXCEPT ![p] = "decode"]
    /\ UNCHANGED <<flags, mu, key, value, val, resp>>
    /\ UNCHANGED hist

\* The handler decodes the body; on an error it replies with the error and the
\* endpoint is not called; otherwise the endpoint calls GetFeatureFlag.
DecodeGet(p) ==
    /\ pc[p] = "decode"
    /\ path[p] = "/get"
    /\ LET d == decodeGetFeatureFlagRequest(body[p]) IN
         IF d.err
         THEN /\ pc' = [pc EXCEPT ![p] = "done"]
              /\ resp' = [resp EXCEPT ![p] = ErrorResponse]
              /\ key' = key
         ELSE /\ pc' = [pc EXCEPT ![p] = "rlock"]
              /\ resp' = resp
              /\ key' = [key EXCEPT ![p] = d.Key]
    /\ body' = [body EXCEPT ![p] = NoBody]
    /\ UNCHANGED <<flags, mu, path, value, val>>
    /\ UNCHANGED hist

\* s.mu.RLock(): count the reader in; with a writer pending, sleep on
\* readerSem until that writer's Unlock.
RLock(p) ==
    /\ pc[p] = "rlock"
    /\ mu' = RLockOp(mu)
    /\ IF ReaderMustWait(mu)
       THEN /\ pc' = [pc EXCEPT ![p] = "rwait"]
            /\ snap' = snap
       ELSE /\ pc' = [pc EXCEPT ![p] = "read"]
            /\ snap' = [snap EXCEPT ![p] = committed[key[p]]]
    /\ UNCHANGED <<flags, path, body, key, value, val, resp>>
    /\ UNCHANGED <<committed, everSet, settled, racing, owner>>

\* A sleeping reader is woken by the writer's Unlock and holds the read lock.
RLockWake(p) ==
    /\ pc[p] = "rwait"
    /\ mu.readerSem > 0
    /\ mu' = [mu EXCEPT !.readerSem = @ - 1]
    /\ pc' = [pc EXCEPT ![p] = "read"]
    /\ snap' = [snap EXCEPT ![p] = committed[key[p]]]
    /\ UNCHANGED <<flags, path, body, key, value, val, resp>>
    /\ UNCHANGED <<committed, everSet, settled, racing, owner>>

\* How far the call that wrote the readable value of k has got.
Stage(k) ==
    CASE owner[k] = 0 -> "returned"
      [] owner[k] # 0 /\ pc[owner[k]] = "setret" -> "unlocked"
      [] OTHER -> "written"

\* The map lookup and the choice of the return value.
Read(p) ==
    /\ pc[p] = "read"
    /\ val' = [val EXCEPT ![p] = Lookup(flags, key[p])]
    /\ flags' = MapAfterIndex(flags, key[p])
    /\ pc' = [pc EXCEPT ![p] = "runlock"]
    /\ UNCHANGED <<mu, path, body, key, value, resp>>
    /\ UNCHANGED hist

\* The deferred s.mu.RUnlock().
RUnlock(p) ==
    /\ pc[p] = "runlock"
    /\ mu' = RUnlockOp(mu)
    /\ pc' = [pc EXCEPT ![p] = "getret"]
    /\ UNCHANGED <<flags, path, body, key, value, val, resp>>
    /\ UNCHANGED hist

\* GetFeatureFlag returns; the endpoint drops the error and builds the
\* response, which encodeResponse writes.
GetReturn(p) ==
    /\ pc[p] = "getret"
    /\ resp' = [resp EXCEPT ![p] = getFeatureFlagResponse(val[p].val)]
    /\ pc' = [pc EXCEPT ![p] = "done"]
    /\ UNCHANGED <<flags, mu, path, body, key, value, val>>
    /\ UNCHANGED hist

----------------------------------------------------------------------------
\* The /set route.

\* A request arrives on /set and its handler starts.
ReceiveSet(p, bodies) ==
    /\ pc[p] = "idle"
    /\ \E b \in bodies : body' = [body EXCEPT ![p] = b]
    /\ path' = [path EXCEPT ![p] = "/set"]
    /\ pc' = [pc EXCEPT ![p] = "decode"]
    /\ UNCHANGED <<flags, mu, key, value, val, resp>>
    /\ UNCHANGED hist

\* The handler decodes the body; on an error it replies with the error and the
\* endpoint is not called; otherwise the endpoint calls SetFeatureFlag.
DecodeSet(p) ==
    /\ pc[p] = "decode"
    /\ path[p] = "/set"
    /\ LET d == decodeSetFeatureFlagRequest(body[p]) IN
         IF d.err
         THEN /\ pc' = [pc EXCEPT ![p] = "done"]
              /\ resp' = [resp EXCEPT ![p] = ErrorResponse]
              /\ UNCHANGED <<key, value, everSet, settled, racing>>
         ELSE /\ pc' = [pc EXCEPT ![p] = "lock"]
              /\ resp' = resp
              /\ key' = [key EXCEPT ![p] = d.Key]
              /\ value' = [value EXCEPT ![p] = d.Value]
              /\ everSet' = everSet \cup {d.Key}
              /\ settled' = [settled EXCEPT ![d.Key] = {}]
              /\ racing' = [racing EXCEPT ![d.Key] =
                               \E q \in Procs \ {p} : InSet(q) /\ key[q] = d.Key]
    /\ body' = [body EXCEPT ![p] = NoBody]
    /\ UNCHANGED <<flags, mu, path, val>>
    /\ UNCHANGED <<committed, snap, owner>>

\* s.mu.Lock(): take the writer mutex, excluding other writers, and announce
\* the writer to readers; sleep on writerSem while readers are active.
Lock(p) ==
    /\ pc[p] = "lock"
    /\ WriterMutexFree(mu)
    /\ mu' = LockOp(mu, p)
    /\ pc' = [pc EXCEPT ![p] = IF WriterMustWait(mu) THEN "wsleep" ELSE "write"]
    /\ UNCHANGED <<flags, path, body, key, value, val, resp>>
    /\ UNCHANGED hist

\* A sleeping writer is woken by the last departing reader and holds the lock.
LockWake(p) ==
    /\ pc[p] = "wsleep"
    /\ mu.writerSem > 0
    /\ mu' = [mu EXCEPT !.writerSem = @ - 1]
    /\ pc' = [pc EXCEPT ![p] = "write"]
    /\ UNCHANGED <<flags, path, body, key, value, val, resp>>
    /\ UNCHANGED hist

\* Whether storing v under k changes what a lookup of k gives.
Changes(m, k, v) == IF k \in DOMAIN m THEN m[k] # v ELSE v

\* s.flags[key] = value
Write(p) ==
    /\ pc[p] = "write"
    /\ flags' = Store(flags, key[p], value[p])
    /\ pc' = [pc EXCEPT ![p] = "unlock"]
    /\ owner' = [owner EXCEPT ![key[p]] = IF Changes(flags, key[p], value[p]) THEN p ELSE @]
    /\ UNCHANGED <<mu, path, body, key, value, val, resp>>
    /\ UNCHANGED <<committed, snap, everSet, settled, racing>>

\* The deferred s.mu.Unlock().
Unlock(p) ==
    /\ pc[p] = "unlock"
    /\ mu' = UnlockOp(mu)
    /\ pc' = [pc EXCEPT ![p] = "setret"]
    /\ committed' = [committed EXCEPT ![key[p]] = {value[p]}]
    /\ UNCHANGED <<flags, path, body, key, value, val, resp>>
    /\ UNCHANGED <<snap, everSet, settled, racing, owner>>

\* SetFeatureFlag returns; the endpoint builds the response.
SetReturn(p) ==
    /\ pc[p] = "setret"
    /\ resp' = [resp EXCEPT ![p] = setFeatureFlagResponse(TRUE)]
    /\ pc' = [pc EXCEPT ![p] = "done"]
    /\ owner' = [k \in Keys |-> IF owner[k] = p THEN 0 ELSE owner[k]]
    /\ settled' = [settled EXCEPT ![key[p]] =
                      IF racing[key[p]] \/ \E q \in Procs \ {p} : InSet(q) /\ key[q] = key[p]
                      THEN {} ELSE {value[p]}]
    /\ racing' = [racing EXCEPT ![key[p]] =
                     @ /\ \E q \in Procs \ {p} : InSet(q) /\ key[q] = key[p]]
    /\ UNCHANGED <<flags, mu, path, body, key, value, val>>
    /\ UNCHANGED <<committed, snap, everSet>>

----------------------------------------------------------------------------
\* The handler is finished; the goroutine may serve another request.
Finish(p) ==
    /\ pc[p] = "done"
    /\ pc' = [pc EXCEPT ![p] = "idle"]
    /\ path' = [path EXCEPT ![p] = "none"]
    /\ key' = [key EXCEPT ![p] = ""]
    /\ value' = [value EXCEPT ![p] = FALSE]
    /\ val' = [val EXCEPT ![p] = NoResult]
    /\ resp' = [resp EXCEPT ![p] = NoResponse]
    /\ snap' = [snap EXCEPT ![p] = {}]
    /\ UNCHANGED <<flags, mu, body, committed, everSet, settled, racing, owner>>

\* The steps of goroutine p once its request is received.
Step(p) ==
    \/ DecodeGet(p)
    \/ DecodeSet(p)
    \/ RLock(p)
    \/ RLockWake(p)
    \/ Read(p)
    \/ RUnlock(p)
    \/ GetReturn(p)
    \/ Lock(p)
    \/ LockWake(p)
    \/ Write(p)
    \/ Unlock(p)
    \/ SetReturn(p)
    \/ Finish(p)

Next ==
    \E p \in Procs :
        \/ ReceiveGet(p, GetBodies)
        \/ ReceiveSet(p, SetBodies)
        \/ DecodeGet(p)
        \/ DecodeSet(p)
        \/ RLock(p)
        \/ RLockWake(p)
        \/ Read(p)
        \/ RUnlock(p)
        \/ GetReturn(p)
        \/ Lock(p)
        \/ LockWake(p)
        \/ Write(p)
        \/ Unlock(p)
        \/ SetReturn(p)
        \/ Finish(p)

Spec == Init /\ [][Next]_vars

----------------------------------------------------------------------------
\* The same service with three goroutines and one well-formed body per route,
\* under fair scheduling: a goroutine that can run does run (weak fairness of
\* its steps), and a goroutine that can again and again take the writer mutex
\* or a reader wake-up does take it (strong fairness of Lock and RLockWake).
\* The writer mutex is a sync.Mutex, which hands itself to a goroutine that
\* has waited long.  A reader wake-up left by Unlock can be consumed by a
\* reader that arrived behind a later writer, so that weak fairness alone
\* would let one sleeping reader be overtaken for ever.

LiveProcs == 1..NumLiveProcs

LiveGetBodies == {JObject(JString("beta"), JAbsent)}
LiveSetBodies == {JObject(JString("beta"), JBool(TRUE))}

LiveInit == InitFor(LiveProcs)

LiveNext ==
    \E p \in Procs :
        \/ ReceiveGet(p, LiveGetBodies)
        \/ ReceiveSet(p, LiveSetBodies)
        \/ DecodeGet(p)
        \/ DecodeSet(p)
        \/ RLock(p)
        \/ RLockWake(p)
        \/ Read(p)
        \/ RUnlock(p)
        \/ GetReturn(p)
        \/ Lock(p)
        \/ LockWake(p)
        \/ Write(p)
        \/ Unlock(p)
        \/ SetReturn(p)
        \/ Finish(p)

Fairness ==
    \A p \in LiveProcs :
        WF_vars(Step(p)) /\ SF_vars(Lock(p)) /\ SF_vars(RLockWake(p))

LiveSpec == LiveInit /\ [][LiveNext]_vars /\ Fairness

----------------------------------------------------------------------------
\* The value a Go map lookup gives for a history entry: false when unset.
Agrees(v, entry) == IF entry = {} THEN v = FALSE ELSE v \in entry

\* C1: a GetFeatureFlag returns the value of the SetFeatureFlag on its key
\* whose critical section ended last before the read's critical section
\* began, or false when there was none; the response carries that value.
C1_ReadsLastCommitted ==
    \A p \in Procs :
        /\ pc[p] \in {"runlock", "getret"} => Agrees(val[p].val, snap[p])
        /\ pc[p] = "done" /\ resp[p].kind = "get" => Agrees(resp[p].Value, snap[p])

\* A reader has read a committed value while a writer of another value for
\* the same key is announced and asleep.
C1_Witness ==
    \E p, q \in Procs :
        /\ pc[p] = "runlock" /\ snap[p] # {}
        /\ pc[q] = "wsleep" /\ key[q] = key[p] /\ value[q] \notin snap[p]

\* C2: while a SetFeatureFlag holds the write lock, no other SetFeatureFlag
\* holds it and no GetFeatureFlag holds a read lock.
C2_MutualExclusion ==
    \A p \in Procs :
        InWriteCS(p) => \A q \in Procs \ {p} : ~InWriteCS(q) /\ ~InReadCS(q)

\* A writer holds the lock while another call is kept out.
C2_Witness ==
    \E p, q \in Procs : InWriteCS(p) /\ pc[q] \in {"rwait", "lock"}

\* C3: once SetFeatureFlag(k, v) has returned, with no other SetFeatureFlag
\* on k overlapping it or begun since, a GetFeatureFlag(k) reads v, and its
\* response carries what it read.
C3_WriteThenRead ==
    \A p \in Procs :
        /\ pc[p] = "runlock" /\ settled[key[p]] # {} => val[p].val \in settled[key[p]]
        /\ pc[p] = "done" /\ resp[p].kind = "get" => resp[p].Value = val[p].val

\* A reader has read a settled true while a SetFeatureFlag on another key is
\* in progress.
C3_Witness ==
    \E p, q \in Procs :
        /\ pc[p] = "runlock" /\ settled[key[p]] = {TRUE}
        /\ InSet(q) /\ key[q] # key[p]

\* C4: a GetFeatureFlag on a key never passed to SetFeatureFlag returns
\* false and a nil error, and the response is {value: false}.
C4_DefaultFalse ==
    \A p \in Procs :
        key[p] \notin everSet =>
            /\ pc[p] \in {"runlock", "getret"} => val[p] = [val |-> FALSE, err |-> "nil"]
            /\ pc[p] = "done" /\ path[p] = "/get" /\ resp[p] # ErrorResponse
                  => resp[p] = getFeatureFlagResponse(FALSE)

\* A read of a key never set has been answered after another key was set.
C4_Witness ==
    \E p \in Procs :
        /\ pc[p] = "done" /\ resp[p].kind = "get"
        /\ key[p] \notin everSet
        /\ DOMAIN flags # {}

\* C5 as stated: no GetFeatureFlag reads a value whose SetFeatureFlag call
\* has not returned to its caller, and a value settled by a returned call is
\* what a reader holding the read lock is about to read.
C5_HiddenUntilReturn ==
    /\ [][\A p \in Procs :
             pc[p] = "read" /\ pc'[p] = "runlock" => Stage(key[p]) = "returned"]_vars
    /\ [](\A p \in Procs :
             pc[p] = "read" /\ settled[key[p]] # {}
                => Lookup(flags, key[p]).val \in settled[key[p]])

\* C5 as amended: no GetFeatureFlag reads a value whose SetFeatureFlag call
\* has not released the write lock, and a value settled by a returned call is
\* what a reader holding the read lock is about to read.
C5_HiddenUntilUnlock ==
    /\ [][\A p \in Procs :
             pc[p] = "read" /\ pc'[p] = "runlock" => Stage(key[p]) # "written"]_vars
    /\ [](\A p \in Procs :
             pc[p] = "read" /\ settled[key[p]] # {}
                => Lookup(flags, key[p]).val \in settled[key[p]])

\* A reader has read the value of a call that released the lock and has not
\* returned.
C5_Witness ==
    \E p \in Procs :
        /\ pc[p] = "runlock"
        /\ Stage(key[p]) = "unlocked"
        /\ val[p].val = value[owner[key[p]]]

\* C6: with no write to k inside its critical section, the stored value of k
\* is the value of the write whose critical section ended last, and that is
\* what a reader holding the read lock has read.
C6_LastWriterWins ==
    /\ \A k \in Keys :
          committed[k] # {} /\ ~(\E p \in Procs : pc[p] = "unlock" /\ key[p] = k)
             => k \in DOMAIN flags /\ flags[k] \in committed[k]
    /\ \A p \in Procs :
          pc[p] = "runlock" /\ committed[key[p]] # {} => val[p].val \in committed[key[p]]

\* Two concurrent calls wrote true and false to the same key and both have
\* left their critical sections.
C6_Witness ==
    \E p, q \in Procs :
        /\ pc[p] = "setret" /\ pc[q] = "setret"
        /\ key[p] = key[q] /\ value[p] /\ ~value[q]

\* C7 as stated: a /get body without a key field is rejected by the decoder,
\* GetFeatureFlag is not called and the map is left as it was.
C7_GetWithoutKeyRejected ==
    [][\A p \in Procs :
          /\ pc[p] = "decode" /\ path[p] = "/get"
          /\ body[p].valid /\ body[p].key.t = "absent"
          /\ pc'[p] # "decode"
          => pc'[p] = "done" /\ resp'[p] = ErrorResponse /\ flags' = flags]_vars

C10_ReadersNotSerialized ==
    \A p \in Procs :
        pc[p] = "rwait" /\ mu.readerSem = 0
           => \E q \in Procs : pc[q] \in {"wsleep", "write", "unlock"}

\* Two GetFeatureFlag calls hold read locks at once.
C10_Witness ==
    \E p, q \in Procs : p # q /\ InReadCS(p) /\ InReadCS(q)

\* C11: the step of SetFeatureFlag that stores key[p] leaves every other key
\* as it was, present with the same value or absent, and no other step of a
\* /set request changes the map at all.
C11_SetLeavesOtherKeys ==
    [][\A p \in Procs :
          /\ path[p] = "/set" /\ pc'[p] # pc[p]
             => \A k \in Keys \ {key[p]} :
                   /\ k \in DOMAIN flags' <=> k \in DOMAIN flags
                   /\ k \in DOMAIN flags => flags'[k] = flags[k]
          /\ path[p] = "/set" /\ pc'[p] # pc[p] /\ pc[p] # "write"
             => flags' = flags]_vars

\* SetFeatureFlag has stored its key while the other key holds an entry.
C11_Witness ==
    \E p \in Procs :
        /\ pc[p] = "unlock"
        /\ \E k \in Keys \ {key[p]} : k \in DOMAIN flags

\* C12: the store of SetFeatureFlag replaces an entry that is there, so
\* after SetFeatureFlag(k, v1) and then SetFeatureFlag(k, v2), one after the
\* other, the map holds v2 for k and a GetFeatureFlag(k) reads v2.
C12_SecondSetReplaces ==
    /\ [][\A p \in Procs :
             pc[p] = "write" /\ pc'[p] = "unlock"
                => key[p] \in DOMAIN flags' /\ flags'[key[p]] = value[p]]_vars
    /\ [](\A k \in Keys :
             settled[k] # {} => k \in DOMAIN flags /\ settled[k] = {flags[k]})
    /\ [](\A p \in Procs :
             pc[p] = "runlock" /\ key[p] \in DOMAIN flags
                => val[p].val = flags[key[p]])

\* A second SetFeatureFlag has stored the opposite of the value the first one
\* committed for the same key.
C12_Witness ==
    \E p \in Procs :
        /\ pc[p] = "unlock"
        /\ committed[key[p]] = {~value[p]}
        /\ flags[key[p]] = value[p]

\* C13: a SetFeatureFlag that holds the write lock has one way on: it stores
\* its value, then releases the lock with the map holding that value, then
\* returns; under fair scheduling it does return.
C13_SetCommits ==
    /\ [][\A p \in LiveProcs :
             /\ pc[p] = "write" /\ pc'[p] # "write"
                => /\ pc'[p] = "unlock"
                   /\ key[p] \in DOMAIN flags' /\ flags'[key[p]] = value[p]
             /\ pc[p] = "unlock" /\ pc'[p] # "unlock"
                => /\ pc'[p] = "setret"
                   /\ key[p] \in DOMAIN flags /\ flags[key[p]] = value[p]
                   /\ flags' = flags
                   /\ mu'.w = 0 /\ ~mu'.pending
             /\ pc[p] = "setret" /\ pc'[p] # "setret"
                => pc'[p] = "done" /\ resp'[p] = setFeatureFlagResponse(TRUE)]_vars
    /\ \A p \in LiveProcs : (pc[p] = "write") ~> (pc[p] = "setret")

\* SetFeatureFlag has returned, the map holds its value and the writer mutex
\* is free, while another call is still on its way.
C13_Witness ==
    \E p, q \in Procs :
        /\ pc[p] = "setret" /\ flags[key[p]] = value[p] /\ mu.w = 0
        /\ pc[q] \in {"rwait", "lock", "read"}

\* C14: GetFeatureFlag calls that hold read locks for the same key at the same
\* time have read the same value with a nil error, and while no
\* SetFeatureFlag is in progress no GetFeatureFlag is kept waiting.
C14_ConcurrentReadsAgree ==
    /\ \A p, q \in Procs :
          pc[p] = "runlock" /\ pc[q] = "runlock" /\ key[p] = key[q]
             => val[p] = val[q] /\ val[p].err = "nil"
    /\ (\A q \in Procs : ~InSet(q))
          => \A p \in Procs : pc[p] = "rwait" => mu.readerSem > 0

\* Two GetFeatureFlag calls have read the same present key under read locks
\* held together, with no SetFeatureFlag in progress.
C14_Witness ==
    \E p, q \in Procs :
        /\ p # q /\ pc[p] = "runlock" /\ pc[q] = "runlock"
        /\ key[p] = key[q] /\ key[p] \in DOMAIN flags /\ val[p].val
        /\ \A r \in Procs : ~InSet(r)

\* C15: no step of a /get request changes the map; a GetFeatureFlag of an
\* absent key leaves the key absent.
C15_GetIsPureRead ==
    [][\A p \in Procs :
          (path[p] = "/get" \/ path'[p] = "/get") /\ pc'[p] # pc[p]
             => flags' = flags]_vars

\* GetFeatureFlag has looked up a key that the map does not hold.
C15_Witness ==
    \E p \in Procs : pc[p] = "getret" /\ key[p] \notin DOMAIN flags

\* C16: a /set body that is an object with a string key (or none) and a
\* boolean value (or none) is never answered with the error; its
\* SetFeatureFlag creates or replaces the entry of the key, the empty key
\* included, before the lock is released, and the response is success = true.
C16_SetAlwaysSucceeds ==
    /\ [][\A p \in Procs :
             /\ pc[p] = "decode" /\ path[p] = "/set" /\ pc'[p] # "decode"
             /\ body[p].valid
             /\ body[p].key.t \in {"string", "absent"}
             /\ body[p].value.t \in {"bool", "absent"}
             => pc'[p] = "lock"]_vars
    /\ [](\A p \in Procs :
             /\ pc[p] \in {"unlock", "setret"} => key[p] \in DOMAIN flags
             /\ pc[p] = "unlock" => flags[key[p]] = value[p]
             /\ pc[p] = "done" /\ path[p] = "/set" /\ resp[p] # ErrorResponse
                => /\ resp[p] = setFeatureFlagResponse(TRUE)
                   /\ key[p] \in DOMAIN flags)

\* A /set request for the empty key has been answered with success = true.
C16_Witness ==
    \E p \in Procs :
        /\ pc[p] = "done" /\ path[p] = "/set" /\ key[p] = ""
        /\ resp[p] = setFeatureFlagResponse(TRUE)

-----------------------------------------------------------------------------
\* The service driven by one client that sends its requests one after the
\* other, each after the response to the one before was written: /get for
\* "beta" any number of times, /set of "beta" to true once, /get for "beta"
\* again.  The server runs each request on a goroutine of its own, one of
\* NumLiveProcs here.  No call ever finds the lock taken, so no goroutine
\* sleeps.
Quiet == \A q \in Procs : pc[q] \in {"idle", "done"}

ScenarioNext ==
    \E p \in Procs :
        \/ Quiet /\ ReceiveGet(p, LiveGetBodies)
        \/ Quiet /\ everSet = {} /\ ReceiveSet(p, LiveSetBodies)
        \/ DecodeGet(p)
        \/ DecodeSet(p)
        \/ RLock(p)
        \/ Read(p)
        \/ RUnlock(p)
        \/ GetReturn(p)
        \/ Lock(p)
        \/ Write(p)
        \/ Unlock(p)
        \/ SetReturn(p)
        \/ Finish(p)

ScenarioSpec == LiveInit /\ [][ScenarioNext]_vars

\* C17: starting from the empty map, with requests sent one after the other,
\* /get for "beta" is answered {value: false}, /set of "beta" to true is
\* answered {success: true}, and /get for "beta" after it is answered
\* {value: true}.
C17_EndToEnd ==
    [][\A p \in Procs :
          /\ pc[p] = "getret" /\ pc'[p] = "done" /\ everSet = {}
             => resp'[p].kind = "get" /\ resp'[p].Value = FALSE
          /\ pc[p] = "setret" /\ pc'[p] = "done"
             => resp'[p].kind = "set" /\ resp'[p].Success = TRUE
          /\ pc[p] = "getret" /\ pc'[p] = "done" /\ everSet = {"beta"}
             => resp'[p].kind = "get" /\ resp'[p].Value = TRUE]_vars

\* The /set request has been answered with success = true and the /get
\* request after it with value = true.
C17_Witness ==
    \E p, q \in Procs :
        /\ pc[q] = "done" /\ resp[q].kind = "set" /\ resp[q].Success
        /\ pc[p] = "done" /\ resp[p].kind = "get" /\ resp[p].Value

-----------------------------------------------------------------------------
\* C18: the reader count of the mutex is the number of GetFeatureFlag calls
\* that have called RLock and not yet RUnlock (asleep in RLock or in the read
\* critical section), the writer mutex and the writer announcement
\* are taken exactly while one SetFeatureFlag is between Lock and Unlock,
\* which is the call in the write critical section if there is one, and with
\* no call between its lock and its unlock the mutex is as it was made.
C18_LockBalanced ==
    /\ mu.readerCount =
          Cardinality({p \in Procs : pc[p] \in {"rwait", "read", "runlock"}})
    /\ Cardinality({p \in Procs : pc[p] \in {"wsleep", "write", "unlock"}}) <= 1
    /\ \A p \in Procs : pc[p] \in {"wsleep", "write", "unlock"} => mu.w = p
    /\ mu.w # 0 => pc[mu.w] \in {"wsleep", "write", "unlock"}
    /\ mu.pending <=> mu.w # 0
    /\ \A p, q \in Procs : InWriteCS(p) /\ q # p => ~InReadCS(q)
    /\ (\A p \in Procs :
           pc[p] \notin {"rwait", "read", "runlock", "wsleep", "write", "unlock"})
          => mu = FreeRWMutex

\* GetFeatureFlag has returned through the branch for a missing key and the
\* mutex is free.
C18_Witness ==
    \E p \in Procs :
        /\ pc[p] = "getret" /\ key[p] \notin DOMAIN flags
        /\ everSet # {} /\ mu = FreeRWMutex

\* C19: no step removes a key from the map; a key whose SetFeatureFlag has
\* released the lock is present from then on; a GetFeatureFlag of a key
\* stored as false returns what it returns for a key never stored.
C19_KeysOnlyGrow ==
    /\ [][DOMAIN flags \subseteq DOMAIN flags']_vars
    /\ [](\A k \in Keys : committed[k] # {} => k \in DOMAIN flags)
    /\ [](\A p \in Procs :
             pc[p] = "runlock" /\ key[p] \in DOMAIN flags /\ ~flags[key[p]]
                => val[p] = Lookup(EmptyMap, key[p]))

\* GetFeatureFlag has read a key that a SetFeatureFlag stored as false.
C19_Witness ==
    \E p \in Procs :
        /\ pc[p] = "runlock" /\ key[p] \in DOMAIN flags /\ ~flags[key[p]]
        /\ snap[p] # {}

-----------------------------------------------------------------------------
\* The service with /set bodies that are objects with a field left out or
\* with both fields and the value true: a SetFeatureFlag with the value false
\* comes from a body without a value field.
OmitSetBodies ==
    { JObject(JString("beta"), JBool(TRUE)),
      JObject(JString("beta"), JAbsent),
      JObject(JAbsent, JBool(TRUE)) }

OmitNext ==
    \E p \in Procs :
        \/ ReceiveGet(p, GetBodies)
        \/ ReceiveSet(p, OmitSetBodies)
        \/ DecodeGet(p)
        \/ DecodeSet(p)
        \/ RLock(p)
        \/ RLockWake(p)
        \/ Read(p)
        \/ RUnlock(p)
        \/ GetReturn(p)
        \/ Lock(p)
        \/ LockWake(p)
        \/ Write(p)
        \/ Unlock(p)
        \/ SetReturn(p)
        \/ Finish(p)

OmitSpec == Init /\ [][OmitNext]_vars

\* C20: a /set body that is an object without a value field is decoded
\* without error to the value false, and one without a key field to the
\* empty key; its SetFeatureFlag stores that value, replacing true by false,
\* and the response is success = true.
C20_OmittedFieldsAreZero ==
    /\ [][\A p \in Procs :
             /\ pc[p] = "decode" /\ path[p] = "/set" /\ pc'[p] # "decode"
             /\ body[p].valid
             /\ body[p].key.t = "absent" \/ body[p].value.t = "absent"
             => /\ pc'[p] = "lock"
                /\ body[p].value.t = "absent" => value'[p] = FALSE
                /\ body[p].key.t = "absent" => key'[p] = ""]_vars
    /\ [](\A p \in Procs :
             /\ pc[p] = "unlock" /\ ~value[p]
                => key[p] \in DOMAIN flags /\ ~flags[key[p]]
             /\ pc[p] = "done" /\ path[p] = "/set"
                => resp[p] = setFeatureFlagResponse(TRUE))

\* A /set body without a value field has replaced true by false.
C20_Witness ==
    \E p \in Procs :
        /\ pc[p] = "unlock" /\ ~value[p]
        /\ committed[key[p]] = {TRUE}
        /\ flags[key[p]] = FALSE

====
